---- MODULE Spec2Model ----
(***************************************************************************)
(* Model of apps/voidscript-editor/src-tauri/src/lib.rs: the native        *)
(* bootstrap of the editor shell.  run() chains the builder calls          *)
(* (seven plugins, the invoke handler, the setup hook), starts the run     *)
(* loop, and the run loop dispatches the two commands toggle_devtools and  *)
(* reload_webview against the windows the host framework created.          *)
(*                                                                         *)
(* Program state: the builder (plugins, commands, setupRegistered), the    *)
(* position of run() (pc, built), and per window the devtools panel and    *)
(* the page.  Each command invocation is a record of the sequence calls;   *)
(* its fields before/after/seen/evalRes/ret record what the handler read   *)
(* and produced.  autoOpens and evalRequests count the framework calls     *)
(* the code issued (open_devtools from setup, eval from reload_webview).   *)
(***************************************************************************)
EXTENDS Integers, Sequences, FiniteSets, TLC

VARIABLES debug, windows, pc, built, plugins, commands, setupRegistered,
          devtools, page, calls, evalRequests, autoOpens, atLoopStart,
          setupResult, panicMsg

vars == <<debug, windows, pc, built, plugins, commands, setupRegistered,
          devtools, page, calls, evalRequests, autoOpens, atLoopStart,
          setupResult, panicMsg>>

\* ---------------------------------------------------------------- bounds
\* Number of command invocations the frontend issues in one run.
MaxCalls == 3

\* Number of windows, besides "main", the configuration may declare.
MaxAuxWindows == 1

AuxLabels == <<"aux1", "aux2", "aux3">>

WindowLabels == {"main"} \cup {AuxLabels[k] : k \in 1..MaxAuxWindows}

\* ------------------------------------------------------- program constants
\* The label looked up by the setup closure.
MainLabel == "main"

\* The message of the expect() on the result of run().
ExpectMsg == "error while running tauri application"

\* The names generate_handler! registers.
CommandNames == {"toggle_devtools", "reload_webview"}

\* Variant: the process plugin is left out of the chain.
BuilderChainNoProcess ==
    << [op |-> "plugin", arg |-> "opener"],
       [op |-> "plugin", arg |-> "clipboard-manager"],
       [op |-> "plugin", arg |-> "dialog"],
       [op |-> "plugin", arg |-> "fs"],
       [op |-> "plugin", arg |-> "os"],
       [op |-> "plugin", arg |-> "global-shortcut"],
       [op |-> "invoke_handler", arg |-> "generate_handler"],
       [op |-> "setup", arg |-> "closure"],
       [op |-> "run", arg |-> "generate_context"] >>

\* The builder calls of run(), in source order.
BuilderChain ==
    << [op |-> "plugin", arg |-> "opener"],
       [op |-> "plugin", arg |-> "clipboard-manager"],
       [op |-> "plugin", arg |-> "dialog"],
       [op |-> "plugin", arg |-> "fs"],
       [op |-> "plugin", arg |-> "os"],
       [op |-> "plugin", arg |-> "process"],
       [op |-> "plugin", arg |-> "global-shortcut"],
       [op |-> "invoke_handler", arg |-> "generate_handler"],
       [op |-> "setup", arg |-> "closure"],
       [op |-> "run", arg |-> "generate_context"] >>

\* ------------------------------------------------------------- pure parts
\* Variant: the handler opens the panel on both branches.
DevtoolsAfterToggleOpenOnly(isOpen) == TRUE

\* toggle_devtools: the panel state the handler produces from the state it
\* read (close_devtools when open, open_devtools otherwise).
DevtoolsAfterToggle(isOpen) == IF isOpen THEN FALSE ELSE TRUE

\* Variant: the handler looks up the main window (as its doc comment
\* says) instead of using the handle it was given.
ToggleWindowMain(w) == IF MainLabel \in windows THEN MainLabel ELSE w

\* toggle_devtools acts on the window handle it was invoked with.
ToggleWindow(w) == w

\* Variant: the result of eval is returned to the caller.
CommandReturnPropagate(evalRes) == IF evalRes = "Err" THEN "Err" ELSE "unit"

\* reload_webview: `let _ =` discards the result of eval; the command
\* returns unit whatever eval returned.
CommandReturn(evalRes) == "unit"

\* Variant: the cfg!(debug_assertions) test is missing.
SetupOpensAnyBuild(dbg, ws) == IF MainLabel \in ws THEN {MainLabel} ELSE {}

\* Variant: without a main window the closure falls back to every window.
SetupOpensFallback(dbg, ws) ==
    IF dbg
    THEN (IF MainLabel \in ws THEN {MainLabel} ELSE ws)
    ELSE {}

\* The setup closure: the windows whose devtools it opens.
SetupOpens(dbg, ws) ==
    IF dbg
    THEN (IF MainLabel \in ws THEN {MainLabel} ELSE {})
    ELSE {}

\* Variant: a missing main window is reported as a setup error.
SetupResultRequireMain(dbg, ws) ==
    IF dbg /\ MainLabel \notin ws THEN "Err" ELSE "Ok"

\* The setup closure: its result, Ok(()) on every path.
SetupResult(dbg, ws) == "Ok"

\* Variant: the commands are async and run on the thread pool, so a
\* handler may start while another is between its two calls.
MainThreadFreeAsync(cs) == TRUE

\* Both commands are synchronous (fn, not async fn): the framework runs
\* such a handler on the main thread, so a handler starts only when no
\* other handler is in progress.
MainThreadFree(cs) == \A i \in 1..Len(cs) : cs[i].status = "done"

\* The builder call run() is about to make.
NextCall == BuilderChain[built + 1]

\* ------------------------------------------------------------------- Init
Init ==
    /\ debug \in BOOLEAN
    /\ windows \in SUBSET WindowLabels
    /\ pc = "builder"
    /\ built = 0
    /\ plugins = << >>
    /\ commands = {}
    /\ setupRegistered = FALSE
    /\ devtools = [w \in windows |-> FALSE]
    /\ page = [w \in windows |-> "loaded"]
    /\ calls = << >>
    /\ evalRequests = [w \in windows |-> 0]
    /\ autoOpens = 0
    /\ atLoopStart = [w \in windows |-> FALSE]
    /\ setupResult = "none"
    /\ panicMsg = "none"

\* ------------------------------------------------------------ run(): builder
Plugin ==
    /\ pc = "builder"
    /\ built < Len(BuilderChain)
    /\ NextCall.op = "plugin"
    /\ plugins' = Append(plugins, NextCall.arg)
    /\ built' = built + 1
    /\ UNCHANGED <<debug, windows, pc, commands, setupRegistered, devtools,
                   page, calls, evalRequests, autoOpens, atLoopStart,
                   setupResult, panicMsg>>

InvokeHandler ==
    /\ pc = "builder"
    /\ built < Len(BuilderChain)
    /\ NextCall.op = "invoke_handler"
    /\ commands' = CommandNames
    /\ built' = built + 1
    /\ UNCHANGED <<debug, windows, pc, plugins, setupRegistered, devtools,
                   page, calls, evalRequests, autoOpens, atLoopStart,
                   setupResult, panicMsg>>

Setup ==
    /\ pc = "builder"
    /\ built < Len(BuilderChain)
    /\ NextCall.op = "setup"
    /\ setupRegistered' = TRUE
    /\ built' = built + 1
    /\ UNCHANGED <<debug, windows, pc, plugins, commands, devtools,
                   page, calls, evalRequests, autoOpens, atLoopStart,
                   setupResult, panicMsg>>

\* run(context) succeeds in starting the application: the setup hook is next.
RunStart ==
    /\ pc = "builder"
    /\ built < Len(BuilderChain)
    /\ NextCall.op = "run"
    /\ built' = built + 1
    /\ pc' = "setup_hook"
    /\ UNCHANGED <<debug, windows, plugins, commands, setupRegistered,
                   devtools, page, calls, evalRequests, autoOpens,
                   atLoopStart, setupResult, panicMsg>>

\* run(context) returns Err: expect() panics with its message.
RunFail ==
    /\ pc = "builder"
    /\ built < Len(BuilderChain)
    /\ NextCall.op = "run"
    /\ built' = built + 1
    /\ pc' = "panicked"
    /\ panicMsg' = ExpectMsg
    /\ UNCHANGED <<debug, windows, plugins, commands, setupRegistered,
                   devtools, page, calls, evalRequests, autoOpens,
                   atLoopStart, setupResult>>

\* The setup closure, run once by the framework before the event loop.
SetupHook ==
    /\ pc = "setup_hook"
    /\ LET opened == IF setupRegistered THEN SetupOpens(debug, windows) ELSE {}
           res    == IF setupRegistered THEN SetupResult(debug, windows) ELSE "Ok"
           dt     == [w \in windows |-> IF w \in opened THEN TRUE ELSE devtools[w]]
       IN /\ devtools' = dt
          /\ autoOpens' = autoOpens + Cardinality(opened)
          /\ setupResult' = res
          /\ atLoopStart' = dt
          /\ IF res = "Ok"
             THEN pc' = "event_loop" /\ panicMsg' = panicMsg
             ELSE pc' = "panicked" /\ panicMsg' = "Failed to setup app"
    /\ UNCHANGED <<debug, windows, built, plugins, commands, setupRegistered,
                   page, calls, evalRequests>>

\* ------------------------------------------------------------- run loop
\* The frontend invokes a command by name on a window; the framework
\* resolves the name and enters the handler on the main thread.
Dispatch(cmd, w) ==
    /\ pc = "event_loop"
    /\ Len(calls) < MaxCalls
    /\ w \in windows
    /\ MainThreadFree(calls)
    /\ calls' = Append(calls,
                  [cmd     |-> cmd,
                   window  |-> w,
                   status  |-> IF cmd \in commands THEN "entered" ELSE "done",
                   seen    |-> FALSE,
                   before  |-> devtools[w],
                   after   |-> devtools[w],
                   evalRes |-> "none",
                   ret     |-> IF cmd \in commands THEN "pending" ELSE "NotFound"])
    /\ UNCHANGED <<debug, windows, pc, built, plugins, commands,
                   setupRegistered, devtools, page, evalRequests, autoOpens,
                   atLoopStart, setupResult, panicMsg>>

\* toggle_devtools, first call: window.is_devtools_open().
ToggleRead(i) ==
    /\ pc = "event_loop"
    /\ i \in 1..Len(calls)
    /\ calls[i].cmd = "toggle_devtools"
    /\ calls[i].status = "entered"
    /\ LET w == ToggleWindow(calls[i].window)
       IN calls' = [calls EXCEPT ![i].seen = devtools[w], ![i].status = "read"]
    /\ UNCHANGED <<debug, windows, pc, built, plugins, commands,
                   setupRegistered, devtools, page, evalRequests, autoOpens,
                   atLoopStart, setupResult, panicMsg>>

\* toggle_devtools, second call: close_devtools() or open_devtools().
ToggleAct(i) ==
    /\ pc = "event_loop"
    /\ i \in 1..Len(calls)
    /\ calls[i].cmd = "toggle_devtools"
    /\ calls[i].status = "read"
    /\ LET w  == ToggleWindow(calls[i].window)
           dt == [devtools EXCEPT ![w] = DevtoolsAfterToggle(calls[i].seen)]
       IN /\ devtools' = dt
          /\ calls' = [calls EXCEPT ![i].status = "done",
                                    ![i].after = dt[calls[i].window],
                                    ![i].ret = "unit"]
    /\ UNCHANGED <<debug, windows, pc, built, plugins, commands,
                   setupRegistered, page, evalRequests, autoOpens,
                   atLoopStart, setupResult, panicMsg>>

\* Variant: the debug auto-open is repeated by the reload handler.
ReloadWebviewReopens(i, res) ==
    /\ pc = "event_loop"
    /\ i \in 1..Len(calls)
    /\ calls[i].cmd = "reload_webview"
    /\ calls[i].status = "entered"
    /\ LET w  == calls[i].window
           dt == [devtools EXCEPT ![w] = IF debug THEN TRUE ELSE @]
       IN /\ evalRequests' = [evalRequests EXCEPT ![w] = @ + 1]
          /\ page' = [page EXCEPT ![w] = IF res = "Ok" THEN "reloading" ELSE @]
          /\ devtools' = dt
          /\ calls' = [calls EXCEPT ![i].status = "done",
                                    ![i].evalRes = res,
                                    ![i].after = dt[w],
                                    ![i].ret = CommandReturn(res)]
    /\ UNCHANGED <<debug, windows, pc, built, plugins, commands,
                   setupRegistered, autoOpens, atLoopStart,
                   setupResult, panicMsg>>

\* reload_webview: one eval("window.location.reload()"), result discarded.
ReloadWebview(i, res) ==
    /\ pc = "event_loop"
    /\ i \in 1..Len(calls)
    /\ calls[i].cmd = "reload_webview"
    /\ calls[i].status = "entered"
    /\ LET w == calls[i].window
       IN /\ evalRequests' = [evalRequests EXCEPT ![w] = @ + 1]
          /\ page' = [page EXCEPT ![w] = IF res = "Ok" THEN "reloading" ELSE @]
          /\ calls' = [calls EXCEPT ![i].status = "done",
                                    ![i].evalRes = res,
                                    ![i].after = devtools[w],
                                    ![i].ret = CommandReturn(res)]
    /\ UNCHANGED <<debug, windows, pc, built, plugins, commands,
                   setupRegistered, devtools, autoOpens, atLoopStart,
                   setupResult, panicMsg>>

\* The page a reload request replaced finishes loading.
PageLoaded(w) ==
    /\ pc = "event_loop"
    /\ w \in windows
    /\ page[w] = "reloading"
    /\ page' = [page EXCEPT ![w] = "loaded"]
    /\ UNCHANGED <<debug, windows, pc, built, plugins, commands,
                   setupRegistered, devtools, calls, evalRequests, autoOpens,
                   atLoopStart, setupResult, panicMsg>>

Next ==
    \/ Plugin
    \/ InvokeHandler
    \/ Setup
    \/ RunStart
    \/ RunFail
    \/ SetupHook
    \/ \E cmd \in CommandNames, w \in WindowLabels : Dispatch(cmd, w)
    \/ \E i \in 1..MaxCalls : ToggleRead(i)
    \/ \E i \in 1..MaxCalls : ToggleAct(i)
    \/ \E i \in 1..MaxCalls, res \in {"Ok", "Err"} : ReloadWebview(i, res)
    \/ \E w \in WindowLabels : PageLoaded(w)

Spec == Init /\ [][Next]_vars

\* ------------------------------------------------------------ properties
CallIds == 1..Len(calls)

IsDone(i, cmd) == calls[i].cmd = cmd /\ calls[i].status = "done"

\* Invocations of cmd on window w, in dispatch order.
CallsOn(cmd, w) == {i \in CallIds : calls[i].cmd = cmd /\ calls[i].window = w}

Odd(n) == n % 2 = 1

AllDone == \A i \in CallIds : calls[i].status = "done"

\* j is the next toggle_devtools on the window of i.
NextToggle(i, j) ==
    /\ i < j
    /\ calls[i].window = calls[j].window
    /\ \A k \in CallIds :
         (i < k /\ k < j) =>
            ~(calls[k].cmd = "toggle_devtools" /\ calls[k].window = calls[i].window)

C2_ReloadOnceNoError ==
    /\ \A w \in windows :
         evalRequests[w] =
            Cardinality({i \in CallsOn("reload_webview", w) : calls[i].status = "done"})
    /\ \A i \in CallIds :
         IsDone(i, "reload_webview") =>
            /\ calls[i].evalRes \in {"Ok", "Err"}
            /\ calls[i].ret = "unit"
            /\ pc = "event_loop"

C2_Witness ==
    \E i, j \in CallIds :
       /\ i < j
       /\ IsDone(i, "reload_webview") /\ IsDone(j, "reload_webview")
       /\ calls[i].window = calls[j].window
       /\ calls[i].evalRes = "Ok"
       /\ calls[j].evalRes = "Err"
       /\ page[calls[j].window] = "reloading"
       /\ evalRequests[calls[j].window] = 2

\* The run loop has just started: setup is complete, no command dispatched.
SetupJustDone == pc = "event_loop" /\ calls = << >>

\* C3: when setup has completed, in a debug build the window "main" has
\* its devtools open; in a release build setup has made no devtools call
\* and the devtools of every window are closed.
C3_DebugAutoOpen ==
    SetupJustDone =>
       /\ (debug /\ "main" \in windows) => devtools["main"] = TRUE
       /\ ~debug => (autoOpens = 0 /\ \A w \in windows : devtools[w] = FALSE)

C3_Witness ==
    /\ SetupJustDone
    /\ debug
    /\ "main" \in windows
    /\ devtools["main"] = TRUE
    /\ autoOpens = 1

\* C4: once run() has started the application, and whenever a command has
\* been dispatched, the seven plugins are attached in the order opener,
\* clipboard manager, dialog, filesystem, OS info, process, global
\* shortcut, both commands are registered, and no dispatch failed to
\* resolve its command.
C4_PluginsAndCommandsBeforeRun ==
    (pc \in {"setup_hook", "event_loop"} \/ calls # << >>) =>
       /\ plugins = <<"opener", "clipboard-manager", "dialog", "fs", "os",
                      "process", "global-shortcut">>
       /\ commands = {"toggle_devtools", "reload_webview"}
       /\ \A i \in CallIds : calls[i].ret # "NotFound"

C4_Witness ==
    /\ pc = "event_loop"
    /\ Len(plugins) = 7
    /\ \E i, j \in CallIds :
          IsDone(i, "toggle_devtools") /\ IsDone(j, "reload_webview")

\* C5: the program is terminated only by the failure of run(), with the
\* message of its expect(): then every builder call has been made and
\* neither the setup hook nor any command has run.  The setup hook never
\* returns an error and no command invocation returns one.
C5_OnlyRunFails ==
    /\ setupResult \in {"none", "Ok"}
    /\ \A i \in CallIds : calls[i].ret \in {"pending", "unit"}
    /\ pc # "panicked" => panicMsg = "none"
    /\ pc = "panicked" =>
          /\ panicMsg = "error while running tauri application"
          /\ Len(plugins) = 7
          /\ commands = CommandNames
          /\ setupRegistered
          /\ setupResult = "none"
          /\ calls = << >>

C5_Witness ==
    /\ pc = "panicked"
    /\ panicMsg = ExpectMsg
    /\ debug
    /\ "main" \notin windows

\* C6: in a debug build without a window "main", when setup has completed
\* it has opened the devtools of no window, it has returned Ok and the run
\* loop has started.
C6_NoMainNoOpen ==
    (debug /\ "main" \notin windows /\ pc \notin {"builder", "setup_hook"} /\ calls = << >>
       /\ setupResult # "none")
       => /\ \A w \in windows : devtools[w] = FALSE
          /\ autoOpens = 0
          /\ setupResult = "Ok"
          /\ pc = "event_loop"

C6_Witness ==
    /\ debug
    /\ "main" \notin windows
    /\ windows # {}
    /\ SetupJustDone
    /\ setupResult = "Ok"

====
